---- MODULE Spec2Model ----
(***************************************************************************)
(* A model of the retrieval pipeline of the Endee RAG system:              *)
(*   src/src/embedding_service.py  EmbeddingService (chunk_document, ...)  *)
(*   src/src/endee_client.py       EndeeClient (the HTTP client of the     *)
(*                                 vector store)                           *)
(*   src/src/rag_service.py        RAGService (initialize, ingest, search) *)
(*                                                                         *)
(* One call runs at a time: pc is the position of the running call, and    *)
(* outcome is what the last finished call handed to its caller.  Strings   *)
(* are sequences of characters; a character is named by a number.  Wall    *)
(* clock readings are whole ticks.                                         *)
(***************************************************************************)
EXTENDS Integers, Sequences, FiniteSets, TLC

\* ------------------------------------------------------------------ bounds

\* Longest document content tried (characters).
MaxLen == 5
\* Largest chunk_size tried.
MaxChunkSize == 3
\* Largest overlap tried.
MaxOverlap == 3
\* Iterations of the chunking loop that are followed before a run that does
\* not end is cut off.
MaxIter == 7
\* Latest reading of the wall clock (ticks).
MaxTick == 2

\* ------------------------------------------------------- Python primitives

None == "None"

Min(a, b) == IF a <= b THEN a ELSE b
Max(a, b) == IF a >= b THEN a ELSE b

\* Python's s[a:b] for integers a, b (negative indices count from the end).
\* Sequences are 1-based here, Python's are 0-based.
PySliceIndex(n, len) == IF n < 0 THEN Max(n + len, 0) ELSE Min(n, len)
PySlice(s, a, b) ==
  LET lo == PySliceIndex(a, Len(s))
      hi == PySliceIndex(b, Len(s))
  IN  IF lo >= hi THEN << >> ELSE SubSeq(s, lo + 1, hi)

\* The text of n characters whose p-th character is named p.
Text(n) == [p \in 1..n |-> p]

\* ----------------------------------------------------------------- inputs

DocumentNames == {"", "doc1"}
Contents == {Text(n) : n \in 0..MaxLen}
ChunkSizes == 1..MaxChunkSize
Overlaps == 0..MaxOverlap
\* The end-to-end example of the specification: 1000 characters,
\* chunk_size = 512, overlap = 50.
ExampleCall == [content |-> Text(1000), chunk_size |-> 512, overlap |-> 50]
ChunkCalls ==
  {[content |-> c, chunk_size |-> s, overlap |-> o] :
      c \in Contents, s \in ChunkSizes, o \in Overlaps} \cup {ExampleCall}

IndexNames == {"documents"}
Dimensions == {384, 768}
Metrics == {"cosine", "L2"}
NoIndex == [exists |-> FALSE]
IndexConfig(dim, metric) == [exists |-> TRUE, dimension |-> dim, metric |-> metric]
IndexConfigs == {IndexConfig(d, m) : d \in Dimensions, m \in Metrics}
\* What can go wrong between the client and the store on one request.
Faults == {"none", "http400", "http500", "connection"}
\* What the store's health endpoint can answer.
HealthAnswers == {"200", "503", "ConnectionError"}

SourceUrls == {None, "http://example.org/doc1"}
Queries == {"", "test query"}
\* Optional[int]: << >> is None, <<n>> is the integer n.
TopKs == {<< >>, <<0>>, <<2>>}
Ticks == 0..MaxTick
\* Search results as the store returns them; scores are in hundredths.
ResultA == [id |-> "a", score |-> 90, metadata |-> [content |-> Text(2)]]
ResultB == [id |-> "b", score |-> 80, metadata |-> [content |-> << >>]]
ResultC == [id |-> "c", score |-> 95, metadata |-> [content |-> Text(1)]]
\* A result whose content is one character longer than the preview kept of it.
ResultLong == [id |-> "d", score |-> 70, metadata |-> [content |-> Text(301)]]
ResultLists == {<< >>, <<ResultA>>, <<ResultA, ResultB>>,
                <<ResultB, ResultA, ResultC, ResultA>>,
                <<ResultLong, ResultA, ResultC, ResultA>>}
\* What the chat completion can do: answer with text, answer with no content,
\* or raise.
AnswererReplies == {"text", "empty", "raise"}

\* ------------------------------------------------------------------ state

VARIABLES
  pc,             \* position of the running call, "idle" before the first call
  outcome,        \* what the last finished call returned or raised
  indices,        \* the store: index name -> its configuration, or NoIndex
  requests,       \* the HTTP requests the running call has sent, in order
  response,       \* the status of the last HTTP response of the running call
  document_name,  \* chunk_document: its arguments ...
  content,
  chunk_size,
  overlap,
  i,              \* ... its cursor
  chunks,         \* ... and the list it builds
  healthResults,  \* initialize: what each health_check() of the call returned
  source_url,     \* ingest_document: its third argument
  openai_client,  \* whether RAGService was constructed with an OpenAI client
  query,          \* search: its arguments ...
  top_k,
  use_llm,
  clock,          \* ... the readings time.time() gave the call, in order
  results,        \* ... what the store returned
  retrieval_time, \* ... the local retrieval_time
  generated_answer,
  answerer_calls  \* ... the chat completions the call asked for

chunkVars == <<document_name, content, chunk_size, overlap, i, chunks>>
httpVars == <<requests, response>>
searchVars == <<query, top_k, use_llm, clock, results, retrieval_time,
                generated_answer, answerer_calls>>
vars == <<pc, outcome, indices, httpVars, chunkVars, healthResults, source_url,
          openai_client, searchVars>>

NoOutcome == [kind |-> "none"]
Returned(call, value) == [kind |-> "returned", call |-> call, value |-> value]
Raised(call, error) == [kind |-> "raised", call |-> call, error |-> error]

\* A new call may start when no call is running.
Ready == pc = "idle"

\* An HTTP exchange as the client sees it: a response with a status, or no
\* response at all (requests.exceptions.ConnectionError).
NoResponse == [kind |-> "none", status |-> 0]
HttpResponse(status) == [kind |-> "response", status |-> status]
ConnectionError == [kind |-> "ConnectionError", status |-> 0]

\* ------------------------------------------- EmbeddingService.chunk_document

\* step = chunk_size - overlap
StepMutant(size, ov) == size + ov
StepSwappedMutant(size, ov) == ov - size
Step(size, ov) == size - ov

\* end = min(i + chunk_size, len(content))
ChunkEnd(cursor, size, text) == Min(cursor + size, Len(text))

\* if end >= len(content): break
ReachesEndMutant(end, text) == end > Len(text)
ReachesEnd(end, text) == end >= Len(text)

\* The dictionary appended on one iteration.  uuid4() is modelled by the
\* ordinal of the chunk within the call: distinct for distinct chunks.
NewChunk(name, text, cursor, end, made) ==
  [id |-> made + 1,
   content |-> PySlice(text, cursor, end),
   metadata |-> [document_name |-> name,
                 chunk_index |-> made,
                 original_length |-> Len(text),
                 start_pos |-> cursor,
                 end_pos |-> end]]

\* The frames of the calls that are not running are empty.
ResetChunk ==
  /\ document_name' = ""
  /\ content' = << >>
  /\ chunk_size' = 0
  /\ overlap' = 0
  /\ i' = 0
  /\ chunks' = << >>
ResetHttp ==
  /\ requests' = << >>
  /\ response' = NoResponse
ResetInitialize == healthResults' = << >>
ResetSearch ==
  /\ query' = ""
  /\ top_k' = << >>
  /\ use_llm' = FALSE
  /\ clock' = << >>
  /\ results' = << >>
  /\ retrieval_time' = 0
  /\ generated_answer' = None
  /\ answerer_calls' = << >>
\* The variables no call changes: the service's construction.
Service == <<openai_client>>

\* The caller has taken the outcome of the finished call; its frame is gone
\* and the service waits for the next call.
NextRequest ==
  /\ pc = "done"
  /\ pc' = "idle"
  /\ outcome' = NoOutcome
  /\ ResetChunk
  /\ ResetHttp
  /\ ResetInitialize
  /\ ResetSearch
  /\ source_url' = None
  /\ UNCHANGED <<indices, Service>>

\* The call and the statements before the loop: chunks = [], step, i = 0.
ChunkDocumentCall ==
  /\ Ready
  /\ \E name \in DocumentNames, call \in ChunkCalls :
       /\ document_name' = name
       /\ content' = call.content
       /\ chunk_size' = call.chunk_size
       /\ overlap' = call.overlap
  /\ i' = 0
  /\ chunks' = << >>
  /\ pc' = "chunk_loop"
  /\ outcome' = NoOutcome
  /\ ResetHttp
  /\ ResetInitialize
  /\ ResetSearch
  /\ source_url' = None
  /\ UNCHANGED <<indices, Service>>

\* One iteration of `while i < len(content)`: the chunk is appended, then the
\* loop either breaks (and the function returns) or advances the cursor.
ChunkIterate ==
  /\ pc = "chunk_loop"
  /\ i < Len(content)
  /\ Len(chunks) < MaxIter
  /\ LET end == ChunkEnd(i, chunk_size, content)
         made == Append(chunks, NewChunk(document_name, content, i, end, Len(chunks)))
     IN  /\ chunks' = made
         /\ IF ReachesEnd(end, content)
              THEN /\ i' = i
                   /\ pc' = "done"
                   /\ outcome' = Returned("chunk_document", made)
              ELSE /\ i' = i + Step(chunk_size, overlap)
                   /\ pc' = "chunk_loop"
                   /\ outcome' = outcome
  /\ UNCHANGED <<document_name, content, chunk_size, overlap>>
  /\ UNCHANGED <<indices, httpVars, healthResults, source_url, Service, searchVars>>

\* The loop test fails: the function returns what it has.
ChunkLoopExit ==
  /\ pc = "chunk_loop"
  /\ ~(i < Len(content))
  /\ pc' = "done"
  /\ outcome' = Returned("chunk_document", chunks)
  /\ UNCHANGED <<chunkVars, indices, httpVars, healthResults, source_url,
                 Service, searchVars>>

\* ------------------------------------------------------- the vector store

\* The store's answer to POST /api/v1/index/create: 409 and no change when the
\* name is taken, otherwise the index is created; a fault leaves the store as
\* it was.
StoreCreateIndex(store, name, dim, metric, fault) ==
  CASE fault = "connection" -> [response |-> ConnectionError, store |-> store]
    [] fault = "http400" -> [response |-> HttpResponse(400), store |-> store]
    [] fault = "http500" -> [response |-> HttpResponse(500), store |-> store]
    [] OTHER ->
         IF store[name].exists
           THEN [response |-> HttpResponse(409), store |-> store]
           ELSE [response |-> HttpResponse(200),
                 store |-> [store EXCEPT ![name] = IndexConfig(dim, metric)]]

\* ------------------------------------------------------------- EndeeClient

\* _make_request: raise_for_status() raises HTTPError for a 4xx or 5xx status,
\* a failed connection raises ConnectionError; both are logged and re-raised.
MakeRequest(resp) ==
  CASE resp.kind = "ConnectionError" -> [raised |-> TRUE, error |-> "ConnectionError", status |-> 0]
    [] resp.status >= 400 -> [raised |-> TRUE, error |-> "HTTPError", status |-> resp.status]
    [] OTHER -> [raised |-> FALSE, error |-> "", status |-> resp.status]

\* health_check: True for status 200, False for any other status and for any
\* exception.
HealthCheck(answer) == answer = "200"

\* The request create_index sends.
CreateIndexRequest(name, dim, metric) ==
  [method |-> "POST", endpoint |-> <<"/api/v1/index/create">>,
   data |-> [name |-> name, dimension |-> dim, metric |-> metric]]

\* create_index's handling of what _make_request did: an HTTPError with status
\* 409 is logged and swallowed, everything else raised is raised again.
CreateIndexResultMutant(call, r) ==
  IF r.raised THEN Raised(call, r.error) ELSE Returned(call, None)
CreateIndexResult(call, r) ==
  IF r.raised /\ ~(r.error = "HTTPError" /\ r.status = 409)
    THEN Raised(call, r.error)
    ELSE Returned(call, None)

\* create_index(name, dimension, metric), called on the client directly.
CreateIndexCall ==
  /\ Ready
  /\ \E name \in IndexNames, dim \in Dimensions, metric \in Metrics :
       requests' = <<CreateIndexRequest(name, dim, metric)>>
  /\ response' = NoResponse
  /\ pc' = "create_index"
  /\ outcome' = NoOutcome
  /\ ResetChunk
  /\ ResetInitialize
  /\ ResetSearch
  /\ source_url' = None
  /\ UNCHANGED <<indices, Service>>

\* The store answers and create_index returns or raises.
CreateIndexAnswer ==
  /\ pc = "create_index"
  /\ \E fault \in Faults :
       LET d == requests[1].data
           ans == StoreCreateIndex(indices, d.name, d.dimension, d.metric, fault)
       IN  /\ indices' = ans.store
           /\ response' = ans.response
           /\ outcome' = CreateIndexResult("create_index", MakeRequest(ans.response))
  /\ pc' = "done"
  /\ UNCHANGED <<requests, chunkVars, healthResults, source_url, Service, searchVars>>

\* ---------------------------------------------------- RAGService.initialize

\* max_retries = 10
max_retries == 10
\* RAGService(index_name="documents")
index_name == "documents"
\* EmbeddingService.dimension of the default model, all-MiniLM-L6-v2.
dimension == 384

\* Where the polling loop goes after one health_check(): `break` when healthy,
\* otherwise sleep and try again.
AfterHealthCheckMutant(healthy) == "init_create"
AfterHealthCheck(healthy) == IF healthy THEN "init_create" ELSE "init_poll"

InitializeCall ==
  /\ Ready
  /\ pc' = "init_poll"
  /\ outcome' = NoOutcome
  /\ healthResults' = << >>
  /\ ResetChunk
  /\ ResetHttp
  /\ ResetSearch
  /\ source_url' = None
  /\ UNCHANGED <<indices, Service>>

\* One iteration of `for attempt in range(max_retries)`.
InitializePoll ==
  /\ pc = "init_poll"
  /\ Len(healthResults) < max_retries
  /\ \E answer \in HealthAnswers :
       /\ healthResults' = Append(healthResults, HealthCheck(answer))
       /\ pc' = AfterHealthCheck(HealthCheck(answer))
  /\ UNCHANGED <<outcome, indices, httpVars, chunkVars, source_url, Service, searchVars>>

\* The loop ran out: the `else` of the for raises RuntimeError.
InitializeGiveUp ==
  /\ pc = "init_poll"
  /\ ~(Len(healthResults) < max_retries)
  /\ pc' = "done"
  /\ outcome' = Raised("initialize", "RuntimeError")
  /\ UNCHANGED <<indices, httpVars, chunkVars, healthResults, source_url,
                 Service, searchVars>>

\* create_index(name=index_name, dimension=model_info["dimension"],
\* metric="cosine"); what it raises leaves initialize.
InitializeCreateIndex ==
  /\ pc = "init_create"
  /\ \E fault \in Faults :
       LET ans == StoreCreateIndex(indices, index_name, dimension, "cosine", fault)
       IN  /\ indices' = ans.store
           /\ response' = ans.response
           /\ outcome' = CreateIndexResult("initialize", MakeRequest(ans.response))
  /\ requests' = Append(requests, CreateIndexRequest(index_name, dimension, "cosine"))
  /\ pc' = "done"
  /\ UNCHANGED <<chunkVars, healthResults, source_url, Service, searchVars>>

\* ---------------------------------------------------------------- settings

\* Settings.chunk_size, Settings.chunk_overlap, Settings.top_k_results
settings_chunk_size == 512
settings_chunk_overlap == 50
settings_top_k_results == 5

\* ------------------------------------------------ EmbeddingService.embed_*

\* The embedding of a text: a vector that the text determines.
Embed(text) == [embedding_of |-> text]

\* What the embedding backend can do with a batch: embed every text, hand
\* back one vector too few, or raise.
EmbedBehaviours == {"all", "short", "raise"}
EmbedTexts(texts, behaviour) ==
  IF behaviour = "short"
    THEN [k \in 1..(Len(texts) - 1) |-> Embed(texts[k])]
    ELSE [k \in 1..Len(texts) |-> Embed(texts[k])]

\* chunk_document run to its end as one function: the loop of ChunkIterate
\* from cursor `cursor` with `made` the chunks so far.
RECURSIVE ChunkFrom(_, _, _, _, _, _)
ChunkFrom(name, text, size, ov, cursor, made) ==
  IF ~(cursor < Len(text)) \/ Len(made) >= MaxIter
    THEN made
    ELSE LET end == ChunkEnd(cursor, size, text)
             more == Append(made, NewChunk(name, text, cursor, end, Len(made)))
         IN  IF ReachesEnd(end, text)
               THEN more
               ELSE ChunkFrom(name, text, size, ov, cursor + Step(size, ov), more)
ChunkDocument(name, text, size, ov) == ChunkFrom(name, text, size, ov, 0, << >>)

\* ------------------------------------------------ RAGService.ingest_document

\* def chunk_document(self, document_name, content, chunk_size=512, overlap=50)
ChunkDocumentParameters == {"document_name", "content", "chunk_size", "overlap"}
\* The keywords ingest_document passes to chunk_document.
IngestChunkKeywords == {"document_name", "content", "chunk_size", "chunk_overlap"}
\* Python binds a call's keyword arguments to the parameters of that name and
\* raises TypeError for a keyword the function does not have.
CallBinds(keywords, parameters) == keywords \subseteq parameters

\* for chunk, embedding in zip(chunks, embeddings): vectors.append({...})
StoredVector(chunk, embedding, url) ==
  [id |-> chunk.id,
   values |-> embedding,
   metadata |-> [document_name |-> chunk.metadata.document_name,
                 chunk_index |-> chunk.metadata.chunk_index,
                 original_length |-> chunk.metadata.original_length,
                 start_pos |-> chunk.metadata.start_pos,
                 end_pos |-> chunk.metadata.end_pos,
                 content |-> chunk.content,
                 source_url |-> url]]
PrepareVectors(cs, embeddings, url) ==
  [k \in 1..Min(Len(cs), Len(embeddings)) |-> StoredVector(cs[k], embeddings[k], url)]

\* The request insert sends.
InsertRequest(name, vectors) ==
  [method |-> "POST", endpoint |-> <<"/api/v1/index/", name, "/insert">>,
   data |-> [vectors |-> vectors]]

\* The store's answer to an insert.
StoreInsert(fault) ==
  CASE fault = "connection" -> ConnectionError
    [] fault = "http400" -> HttpResponse(400)
    [] fault = "http500" -> HttpResponse(500)
    [] OTHER -> HttpResponse(200)

\* ingest_document(document_name, content, source_url) from its first
\* statement to its return or raise: what the caller gets and the requests
\* sent.  The call of chunk_document passes the keyword chunk_overlap, which
\* chunk_document does not have, so the call raises TypeError and the
\* statements after it do not run.
IngestDocument(name, text, url, behaviour, fault) ==
  IF ~CallBinds(IngestChunkKeywords, ChunkDocumentParameters)
    THEN [outcome |-> Raised("ingest_document", "TypeError"), requests |-> << >>]
    ELSE
      LET cs == ChunkDocument(name, text, settings_chunk_size, settings_chunk_overlap)
          texts == [k \in 1..Len(cs) |-> cs[k].content]
          vectors == PrepareVectors(cs, EmbedTexts(texts, behaviour), url)
          sent == MakeRequest(StoreInsert(fault))
      IN  CASE behaviour = "raise" ->
                 [outcome |-> Raised("ingest_document", "EmbeddingError"),
                  requests |-> << >>]
            [] sent.raised ->
                 [outcome |-> Raised("ingest_document", sent.error),
                  requests |-> <<InsertRequest(index_name, vectors)>>]
            [] OTHER ->
                 [outcome |-> Returned("ingest_document",
                                [document_name |-> name,
                                 chunks_added |-> Len(vectors),
                                 total_content_length |-> Len(text)]),
                  requests |-> <<InsertRequest(index_name, vectors)>>]

\* A call of RAGService.ingest_document.
IngestDocumentCall ==
  /\ Ready
  /\ \E name \in DocumentNames, text \in Contents, url \in SourceUrls,
        behaviour \in EmbedBehaviours, fault \in Faults :
       LET r == IngestDocument(name, text, url, behaviour, fault)
       IN  /\ document_name' = name
           /\ content' = text
           /\ source_url' = url
           /\ outcome' = r.outcome
           /\ requests' = r.requests
  /\ pc' = "done"
  /\ response' = NoResponse
  /\ chunk_size' = 0
  /\ overlap' = 0
  /\ i' = 0
  /\ chunks' = << >>
  /\ ResetInitialize
  /\ ResetSearch
  /\ UNCHANGED <<indices, Service>>

\* POST /api/v1/ingest (main.py): empty form fields are refused with status
\* 400 before the service is called; whatever the service raises becomes
\* status 500.
ApiIngest ==
  /\ Ready
  /\ \E name \in DocumentNames, text \in Contents, url \in SourceUrls,
        behaviour \in EmbedBehaviours, fault \in Faults :
       LET r == IngestDocument(name, text, url, behaviour, fault)
       IN  /\ document_name' = name
           /\ content' = text
           /\ source_url' = url
           /\ IF name = "" \/ text = << >>
                THEN /\ outcome' = Raised("api_ingest", "HTTPException 400")
                     /\ requests' = << >>
                ELSE /\ outcome' = IF r.outcome.kind = "raised"
                                     THEN Raised("api_ingest", "HTTPException 500")
                                     ELSE Returned("api_ingest", r.outcome.value)
                     /\ requests' = r.requests
  /\ pc' = "done"
  /\ response' = NoResponse
  /\ chunk_size' = 0
  /\ overlap' = 0
  /\ i' = 0
  /\ chunks' = << >>
  /\ ResetInitialize
  /\ ResetSearch
  /\ UNCHANGED <<indices, Service>>

\* POST /api/v1/ingest-file (main.py): the upload is decoded (a failure is
\* status 400) and handed to the service under its file name, or "document";
\* nothing checks that the text is not empty.
ApiIngestFile ==
  /\ Ready
  /\ \E name \in DocumentNames, text \in Contents, url \in SourceUrls,
        behaviour \in EmbedBehaviours, fault \in Faults, decodes \in BOOLEAN :
       LET filename == IF name = "" THEN "document" ELSE name
           r == IngestDocument(filename, text, url, behaviour, fault)
       IN  /\ document_name' = filename
           /\ content' = text
           /\ source_url' = url
           /\ IF ~decodes
                THEN /\ outcome' = Raised("api_ingest_file", "HTTPException 400")
                     /\ requests' = << >>
                ELSE /\ outcome' = IF r.outcome.kind = "raised"
                                     THEN Raised("api_ingest_file", "HTTPException 500")
                                     ELSE Returned("api_ingest_file", r.outcome.value)
                     /\ requests' = r.requests
  /\ pc' = "done"
  /\ response' = NoResponse
  /\ chunk_size' = 0
  /\ overlap' = 0
  /\ i' = 0
  /\ chunks' = << >>
  /\ ResetInitialize
  /\ ResetSearch
  /\ UNCHANGED <<indices, Service>>

\* -------------------------------------------------------- RAGService.search

\* top_k = top_k or settings.top_k_results
ResolveTopK(arg) ==
  IF arg = << >> \/ arg[1] = 0 THEN settings_top_k_results ELSE arg[1]

\* (time.time() - since) * 1000
ElapsedMs(now, since) == (now - since) * 1000

\* retrieval_time = (time.time() - retrieval_start) * 1000
RetrievalTime(now, start_time, retrieval_start) == ElapsedMs(now, retrieval_start)

\* total_time = (time.time() - start_time) * 1000
TotalTimeMutant(now, start_time, retrieval_start) == now - start_time
TotalTime(now, start_time, retrieval_start) == ElapsedMs(now, start_time)

\* The request EndeeClient.search sends (no filter is passed).
SearchRequest(name, vector, k) ==
  [method |-> "POST", endpoint |-> <<"/api/v1/index/", name, "/search">>,
   data |-> [query |-> vector, k |-> k]]

\* The store's answer to a search.
StoreSearch(fault) ==
  CASE fault = "connection" -> ConnectionError
    [] fault = "http400" -> HttpResponse(400)
    [] fault = "http500" -> HttpResponse(500)
    [] OTHER -> HttpResponse(200)

\* The store's answer to a search that went through: status 200 and a body
\* with the results.
SearchResponse(fault, rs) == StoreSearch(fault) @@ [results |-> rs]

\* EndeeClient.search: return response.get("results", [])
SearchResultsMutant(body) == SubSeq(body.results, 1, Min(Len(body.results), 1))
SearchResults(body) == body.results

\* if use_llm and results and self.openai_client
WantsAnswerMutant(llm, rs, client) == llm /\ client
WantsAnswer(llm, rs, client) == llm /\ rs # << >> /\ client

\* content[:300]
PreviewLen == 300

\* _generate_answer's context_parts: of the first three results, those with a
\* non-empty metadata content, numbered by their rank and cut to the preview
\* length.
RECURSIVE ContextParts(_, _)
ContextParts(rs, rank) ==
  IF rank > Min(Len(rs), 3)
    THEN << >>
    ELSE (IF rs[rank].metadata.content # << >>
            THEN <<[document |-> rank,
                    preview |-> PySlice(rs[rank].metadata.content, 0, PreviewLen)]>>
            ELSE << >>) \o ContextParts(rs, rank + 1)

\* _generate_answer: the text it returns for what the chat completion did.
GenerateAnswer(client, reply) ==
  CASE ~client -> "LLM not configured"
    [] reply = "raise" -> "Error generating answer"
    [] reply = "empty" -> "Unable to generate answer"
    [] OTHER -> "generated text"

\* The call: start_time = time.time().
SearchCall ==
  /\ Ready
  /\ \E q \in Queries, k \in TopKs, llm \in BOOLEAN, t \in Ticks :
       /\ query' = q
       /\ top_k' = k
       /\ use_llm' = llm
       /\ clock' = <<t>>
  /\ results' = << >>
  /\ retrieval_time' = 0
  /\ generated_answer' = None
  /\ answerer_calls' = << >>
  /\ pc' = "search_embed"
  /\ outcome' = NoOutcome
  /\ ResetChunk
  /\ ResetHttp
  /\ ResetInitialize
  /\ source_url' = None
  /\ UNCHANGED <<indices, Service>>

\* query_embedding = embed_text(query), which may raise; then
\* retrieval_start = time.time().
SearchEmbed ==
  /\ pc = "search_embed"
  /\ \E embedded \in BOOLEAN, t \in Ticks :
       IF embedded
         THEN /\ clock' = Append(clock, t)
              /\ pc' = "search_store"
              /\ outcome' = outcome
         ELSE /\ clock' = clock
              /\ pc' = "done"
              /\ outcome' = Raised("search", "EmbeddingError")
  /\ UNCHANGED <<indices, httpVars, chunkVars, healthResults, source_url, Service,
                 query, top_k, use_llm, results, retrieval_time,
                 generated_answer, answerer_calls>>

\* results = endee_client.search(...), which may raise; then retrieval_time.
SearchStore ==
  /\ pc = "search_store"
  /\ requests' = Append(requests,
                   SearchRequest(index_name, Embed(query), ResolveTopK(top_k)))
  /\ \E fault \in Faults, rs \in ResultLists, t \in Ticks :
       LET sent == MakeRequest(StoreSearch(fault))
       IN  /\ response' = IF sent.raised THEN StoreSearch(fault)
                                          ELSE SearchResponse(fault, rs)
           /\ IF sent.raised
                THEN /\ results' = results
                     /\ clock' = clock
                     /\ retrieval_time' = retrieval_time
                     /\ pc' = "done"
                     /\ outcome' = Raised("search", sent.error)
                ELSE /\ results' = SearchResults(SearchResponse(fault, rs))
                     /\ clock' = Append(clock, t)
                     /\ retrieval_time' = RetrievalTime(t, clock[1], clock[2])
                     /\ pc' = "search_answer"
                     /\ outcome' = outcome
  /\ UNCHANGED <<indices, chunkVars, healthResults, source_url, Service,
                 query, top_k, use_llm, generated_answer, answerer_calls>>

\* generated_answer = await self._generate_answer(query, results)
SearchGenerateAnswer ==
  /\ pc = "search_answer"
  /\ WantsAnswer(use_llm, results, openai_client)
  /\ \E reply \in AnswererReplies :
       /\ answerer_calls' = Append(answerer_calls,
                              [query |-> query,
                               context |-> ContextParts(results, 1),
                               reply |-> reply])
       /\ generated_answer' = GenerateAnswer(openai_client, reply)
  /\ pc' = "search_return"
  /\ UNCHANGED <<outcome, indices, httpVars, chunkVars, healthResults, source_url,
                 Service, query, top_k, use_llm, clock, results, retrieval_time>>

\* The condition fails: generated_answer stays None.
SearchSkipAnswer ==
  /\ pc = "search_answer"
  /\ ~WantsAnswer(use_llm, results, openai_client)
  /\ generated_answer' = None
  /\ pc' = "search_return"
  /\ UNCHANGED <<outcome, indices, httpVars, chunkVars, healthResults, source_url,
                 Service, query, top_k, use_llm, clock, results, retrieval_time,
                 answerer_calls>>

\* total_time, and the response dictionary is returned.
SearchReturn ==
  /\ pc = "search_return"
  /\ \E t \in Ticks :
       /\ clock' = Append(clock, t)
       /\ outcome' = Returned("search",
                       [query |-> query,
                        results |-> results,
                        generated_answer |-> generated_answer,
                        retrieval_time_ms |-> retrieval_time,
                        total_time_ms |-> TotalTime(t, clock[1], clock[2]),
                        result_count |-> Len(results)])
  /\ pc' = "done"
  /\ UNCHANGED <<indices, httpVars, chunkVars, healthResults, source_url, Service,
                 query, top_k, use_llm, results, retrieval_time,
                 generated_answer, answerer_calls>>

\* ------------------------------------------------- claims: chunk_document

ChunkFinished == pc = "done" /\ outcome.call = "chunk_document"
ChunkReturned == ChunkFinished /\ outcome.kind = "returned"
InChunkCall == pc = "chunk_loop" \/ ChunkFinished
ValidConfig == chunk_size > overlap /\ overlap >= 0
StartPos(c) == c.metadata.start_pos
EndPos(c) == c.metadata.end_pos

\* C1: for content of length L >= 1 and chunk_size > overlap >= 0 the chunks
\* returned by chunk_document cover [0, L) without a gap: the first starts at
\* 0, each later one starts at or before the end of the one before it, the
\* last ends at L, every position lies in some chunk; and chunk_index runs
\* 0, 1, ..., n-1 in emission order.
C1_ChunkCoverage ==
  (ChunkReturned /\ ValidConfig /\ Len(content) >= 1) =>
    LET cs == outcome.value
        n == Len(cs)
    IN  /\ n >= 1
        /\ StartPos(cs[1]) = 0
        /\ \A k \in 2..n : StartPos(cs[k]) <= EndPos(cs[k - 1])
        /\ EndPos(cs[n]) = Len(content)
        /\ \A p \in 0..(Len(content) - 1) :
             \E k \in 1..n : StartPos(cs[k]) <= p /\ p < EndPos(cs[k])
        /\ \A k \in 1..n : cs[k].metadata.chunk_index = k - 1

\* A call with a valid configuration that returned three or more overlapping
\* chunks.
C1_Witness ==
  /\ ChunkReturned
  /\ ValidConfig
  /\ overlap >= 1
  /\ Len(outcome.value) >= 3

\* C2 (as claimed): with overlap >= chunk_size, chunk_document produces no
\* chunk and ends by raising ConfigurationError.
C2_DegenerateConfigRaises ==
  (InChunkCall /\ overlap >= chunk_size) =>
    /\ chunks = << >>
    /\ ChunkFinished => outcome = Raised("chunk_document", "ConfigurationError")

\* C9: for chunk_size > overlap >= 0 the returned chunks are exactly those
\* with start_pos = k * (chunk_size - overlap) and
\* end_pos = min(start_pos + chunk_size, L) for k = 0..n-1, each holding that
\* span of the content, where the last one is the first whose end_pos is L;
\* empty content gives no chunk; 1000 characters with chunk_size 512 and
\* overlap 50 give three chunks starting at 0, 462 and 924.
C9_ChunkPositions ==
  (ChunkReturned /\ ValidConfig) =>
    LET cs == outcome.value
        n == Len(cs)
        L == Len(content)
    IN  /\ (L = 0) <=> (n = 0)
        /\ \A k \in 1..n :
             /\ StartPos(cs[k]) = (k - 1) * (chunk_size - overlap)
             /\ EndPos(cs[k]) = Min(StartPos(cs[k]) + chunk_size, L)
             /\ cs[k].content = SubSeq(content, StartPos(cs[k]) + 1, EndPos(cs[k]))
             /\ (EndPos(cs[k]) = L) <=> (k = n)
        /\ (L = 1000 /\ chunk_size = 512 /\ overlap = 50) =>
             /\ n = 3
             /\ StartPos(cs[1]) = 0
             /\ StartPos(cs[2]) = 462
             /\ StartPos(cs[3]) = 924

\* The example call has returned.
C9_Witness ==
  /\ ChunkReturned
  /\ Len(content) = 1000
  /\ chunk_size = 512
  /\ overlap = 50
  /\ Len(outcome.value) = 3


\* ------------------------------------------- claims: initialize, create_index

InInitialize ==
  \/ pc \in {"init_poll", "init_create"}
  \/ pc = "done" /\ outcome.call = "initialize"
LastHealthy == healthResults # << >> /\ healthResults[Len(healthResults)]

\* C7: initialize calls health_check at most 10 times and never again after a
\* healthy answer; the index-creation request is sent only after a healthy
\* answer, at most once, for the service's index with the embedder's
\* dimension, and exactly once by the time initialize ends after a healthy
\* answer; when all 10 answers were unhealthy initialize raises its fatal
\* error (RuntimeError, the specification's UnavailableError) and no
\* index-creation request was sent.
C7_InitializePolling ==
  InInitialize =>
    /\ Len(healthResults) <= 10
    /\ \A k \in 1..(Len(healthResults) - 1) : ~healthResults[k]
    /\ Len(requests) <= 1
    /\ requests # << >> =>
         /\ LastHealthy
         /\ requests[1] = CreateIndexRequest(index_name, dimension, "cosine")
    /\ pc = "init_poll" => ~LastHealthy
    /\ pc = "init_create" => LastHealthy /\ requests = << >>
    /\ pc = "done" =>
         IF LastHealthy
           THEN Len(requests) = 1
           ELSE /\ Len(healthResults) = 10
                /\ outcome = Raised("initialize", "RuntimeError")
                /\ requests = << >>

\* initialize returned after two unhealthy answers and a healthy one, having
\* sent its one index-creation request.
C7_Witness ==
  /\ pc = "done"
  /\ outcome = Returned("initialize", None)
  /\ healthResults = <<FALSE, FALSE, TRUE>>
  /\ Len(requests) = 1

\* initialize gave up after ten unhealthy answers.
C7_WitnessUnavailable ==
  /\ pc = "done"
  /\ outcome = Raised("initialize", "RuntimeError")
  /\ Len(healthResults) = 10

\* The step in which the store answers an index-creation request.
CreateAnswered ==
  /\ response = NoResponse
  /\ response' # NoResponse
  /\ requests' # << >>
  /\ requests'[Len(requests')].endpoint = <<"/api/v1/index/create">>

\* C10: when the store answers an index-creation request with 409 (the name
\* exists), create_index returns normally and the store is as it was; a
\* successful call on an existing name leaves the store unchanged, and after
\* any successful call the index exists (so a second call adds nothing to the
\* first); any answer other than 200 or 409 (an HTTP error status, no
\* connection) is raised to the caller.
C10_EnsureIndexIdempotent ==
  [][CreateAnswered =>
       LET name == requests'[Len(requests')].data.name
       IN  /\ response' = HttpResponse(409) =>
                outcome'.kind = "returned" /\ indices' = indices
           /\ (indices[name].exists /\ outcome'.kind = "returned") =>
                indices' = indices
           /\ outcome'.kind = "returned" => indices'[name].exists
           /\ response' \notin {HttpResponse(200), HttpResponse(409)} =>
                outcome'.kind = "raised"]_vars

\* create_index returned normally on a 409 for an index that exists with
\* another dimension than the one asked for, and that index is as it was.
C10_Witness ==
  /\ pc = "done"
  /\ outcome = Returned("create_index", None)
  /\ response = HttpResponse(409)
  /\ indices[requests[1].data.name].exists
  /\ indices[requests[1].data.name].dimension # requests[1].data.dimension

\* ------------------------------------------ claims: search, ingest_document

SearchFinished == pc = "done" /\ outcome.call = "search"
SearchReturned == SearchFinished /\ outcome.kind = "returned"
\* The store search of the call has returned (three clock readings were
\* taken by then).
Retrieved == Len(clock) >= 3
AnswererRaised == \E k \in 1..Len(answerer_calls) : answerer_calls[k].reply = "raise"
\* The texts _generate_answer returns in place of a generated answer.
SentinelAnswers ==
  {"LLM not configured", "Unable to generate answer", "Error generating answer"}
Monotone(readings) ==
  \A k \in 1..(Len(readings) - 1) : readings[k] <= readings[k + 1]

\* C4 (as claimed): a search with use_llm set whose embedding and store search
\* succeeded, and for which no OpenAI client is configured or the chat
\* completion raised, returns a response whose generated_answer is one of the
\* sentinel texts.
C4_LlmDegradesToSentinel ==
  (SearchFinished /\ Retrieved /\ use_llm /\ (~openai_client \/ AnswererRaised)) =>
    /\ outcome.kind = "returned"
    /\ outcome.value.generated_answer \in SentinelAnswers

\* C6 (as claimed): ingest_document with an empty document_name or an empty
\* content ends by raising ValidationError, having sent no request.
C6_EmptyInputIsValidationError ==
  (pc = "done" /\ outcome.call = "ingest_document"
     /\ (document_name = "" \/ content = << >>)) =>
    /\ outcome = Raised("ingest_document", "ValidationError")
    /\ requests = << >>

\* C8: every response search returns has retrieval_time_ms <= total_time_ms,
\* provided the four clock readings of the call never go backwards.
C8_TimingOrdering ==
  (SearchReturned /\ Monotone(clock)) =>
    outcome.value.retrieval_time_ms <= outcome.value.total_time_ms

\* A search returned after a clock that moved between the readings: one tick
\* of retrieval within two ticks in all.
C8_Witness ==
  /\ SearchReturned
  /\ Monotone(clock)
  /\ Len(clock) = 4
  /\ outcome.value.retrieval_time_ms = 1000
  /\ outcome.value.total_time_ms = 2000

\* ------------------------------------------------ claims: search, continued

\* The search request of the running or finished search call, once sent.
SearchSent ==
  /\ requests # << >>
  /\ requests[1].endpoint = <<"/api/v1/index/", index_name, "/search">>

\* C11 (as claimed): the k of the search request is the caller's top_k
\* whenever the caller gave one, 0 included, and the configured default only
\* when the caller gave none.
C11_TopKAsSupplied ==
  SearchSent =>
    requests[1].data.k = IF top_k = << >> THEN settings_top_k_results ELSE top_k[1]

\* C12: a search that returns echoes the query, hands back exactly the
\* sequence of results in the body of the store's answer, in that order, and
\* result_count is the length of that sequence.
C12_ResultsAsReturned ==
  SearchReturned =>
    /\ outcome.value.query = query
    /\ outcome.value.results = response.results
    /\ outcome.value.result_count = Len(response.results)

\* A search for "test query" returned the two results of the store, in the
\* store's order.
C12_Witness ==
  /\ SearchReturned
  /\ outcome.value.query = "test query"
  /\ response.results = <<ResultA, ResultB>>
  /\ outcome.value.result_count = 2

\* C15: within one search call the chat completion is asked for at most once,
\* and only when the store search has returned, use_llm is set, the results
\* are not empty and an OpenAI client is configured; its context holds at
\* most three parts, each from one of the first three results and holding
\* the first 300 characters of that result's content.
C15_AnswererOnceAfterRetrieval ==
  /\ Len(answerer_calls) <= 1
  /\ answerer_calls # << >> =>
       /\ Retrieved
       /\ SearchSent
       /\ use_llm
       /\ results # << >>
       /\ openai_client
       /\ LET ctx == answerer_calls[1].context
          IN  /\ Len(ctx) <= 3
              /\ \A p \in 1..Len(ctx) :
                   /\ ctx[p].document \in 1..Min(3, Len(results))
                   /\ Len(ctx[p].preview) <= 300
                   /\ LET text == results[ctx[p].document].metadata.content
                      IN  ctx[p].preview = SubSeq(text, 1, Min(300, Len(text)))

\* The chat completion was asked once, for four results of which the first
\* is longer than the preview: three parts, the first cut to 300 characters.
C15_Witness ==
  /\ Len(answerer_calls) = 1
  /\ Len(results) = 4
  /\ Len(results[1].metadata.content) = 301
  /\ Len(answerer_calls[1].context) = 3
  /\ Len(answerer_calls[1].context[1].preview) = 300

\* -------------------------------------------------------- claims: ingestion

\* A call of ingest_document has ended, by a return or by an error.
IngestFinished == pc = "done" /\ outcome.call = "ingest_document"

\* The call ended for another reason than a failure of the embedder.
EmbeddingSucceeded == outcome # Raised("ingest_document", "EmbeddingError")

\* The chunks of the document of the call, cut with the configured sizes.
DocumentChunks ==
  ChunkDocument(document_name, content, settings_chunk_size, settings_chunk_overlap)

\* The vectors the call handed to the store's insert.
SentVectors == IF requests = << >> THEN << >> ELSE requests[1].data.vectors

\* C14: the vectors ingest_document sends to the store are, in chunk order,
\* one per chunk of the document: the k-th has the k-th chunk's id, the
\* embedding of its content as values, and its metadata fields plus its
\* content and the call's source_url as metadata.
C14_VectorsMirrorChunks ==
  (IngestFinished /\ EmbeddingSucceeded) =>
    SentVectors = [k \in 1..Len(DocumentChunks) |->
                     StoredVector(DocumentChunks[k],
                                  Embed(DocumentChunks[k].content), source_url)]

\* C17: a call of ingest_document whose embedding did not fail makes exactly
\* one insert request, and that request carries every chunk of the document.
C17_SingleInsertBatch ==
  (IngestFinished /\ EmbeddingSucceeded) =>
    /\ Len(requests) = 1
    /\ requests[1].endpoint = <<"/api/v1/index/", index_name, "/insert">>
    /\ Len(requests[1].data.vectors) = Len(DocumentChunks)

\* ------------------------------------------------ claims: chunking terminates

\* C13: with chunk_size > overlap >= 0 the cursor of chunk_document grows on
\* every iteration that does not end the loop, and every call that has
\* entered the loop returns.
C13_ChunkingTerminates ==
  /\ [][(pc = "chunk_loop" /\ ValidConfig /\ pc' = "chunk_loop") => i' > i]_vars
  /\ (pc = "chunk_loop" /\ ValidConfig) ~> ChunkFinished

\* A call with a valid configuration returned after its cursor had advanced
\* four times.
C13_Witness ==
  /\ ChunkReturned
  /\ ValidConfig
  /\ i > 0
  /\ Len(outcome.value) = 5

\* ---------------------------------------------------------- specification

Init ==
  /\ pc = "idle"
  /\ outcome = NoOutcome
  /\ document_name = ""
  /\ content = << >>
  /\ chunk_size = 0
  /\ overlap = 0
  /\ i = 0
  /\ chunks = << >>
  /\ indices \in [IndexNames -> {NoIndex} \cup IndexConfigs]
  /\ requests = << >>
  /\ response = NoResponse
  /\ healthResults = << >>
  /\ source_url = None
  /\ openai_client \in BOOLEAN
  /\ query = ""
  /\ top_k = << >>
  /\ use_llm = FALSE
  /\ clock = << >>
  /\ results = << >>
  /\ retrieval_time = 0
  /\ generated_answer = None
  /\ answerer_calls = << >>

Next ==
  \/ ChunkDocumentCall
  \/ ChunkIterate
  \/ ChunkLoopExit
  \/ CreateIndexCall
  \/ CreateIndexAnswer
  \/ InitializeCall
  \/ InitializePoll
  \/ InitializeGiveUp
  \/ InitializeCreateIndex
  \/ IngestDocumentCall
  \/ ApiIngest
  \/ ApiIngestFile
  \/ SearchCall
  \/ SearchEmbed
  \/ SearchStore
  \/ SearchGenerateAnswer
  \/ SearchSkipAnswer
  \/ SearchReturn
  \/ NextRequest

Spec == Init /\ [][Next]_vars

\* A call of chunk_document that has started keeps running: its loop takes its
\* next iteration, or leaves, whenever it can.
FairSpec == Spec /\ WF_vars(ChunkIterate) /\ WF_vars(ChunkLoopExit)

====
